---- MODULE Spec2Model ----
(***************************************************************************)
(* A model of the TypeScript data-access core of aioia-core:               *)
(*   - BaseApiService  (the Transport: buildUrl, request, handleLogout)    *)
(*   - BaseCrudRepository (the Repository: getList, getOne, getMany,       *)
(*     create, update, deleteOne, validateResponse)                        *)
(* Execution follows the JavaScript event loop: an action is one run to    *)
(* completion, from the resumption of an await on real I/O to the next     *)
(* such await, promise continuations (microtasks) included.                *)
(***************************************************************************)
EXTENDS Integers, Sequences, FiniteSets, TLC

VARIABLES
    repo,      \* the repository: its resource and its apiService (baseUrl, apiPrefix)
    call,      \* the repository operation the caller has invoked
    tasks,     \* one record per apiService.request call the operation has made
    result,    \* what the operation's promise has settled to (or pending)
    requests,  \* log of the apiService.request calls made by the repository
    sink,      \* log of the Sentry calls (captureException / captureMessage)
    console,   \* log of the console.error / console.warn lines
    sentry,    \* what a call of Sentry does: it "records", or it "throws"
    settled,   \* the order in which the operation's request calls settled
    apiError   \* an error value of errors/exceptions.ts and what was asked of it

vars == <<repo, call, tasks, result, requests, sink, console, sentry, settled, apiError>>

----------------------------------------------------------------------------
(* Bounds of the model.                                                    *)

\* longest id list handed to getMany
MaxIds == 2

\* cap on the HTTP exchanges of one original request (the code makes at most 2)
MaxExchanges == 3

----------------------------------------------------------------------------
(* JSON values, as JSON.parse yields them, tagged with the type name zod   *)
(* reports for them (getParsedType).                                       *)

JUndefined == [t |-> "undefined"]
JNull == [t |-> "null"]
JString(s) == [t |-> "string", s |-> s]
JNumber(n) == [t |-> "number", n |-> n]
JObject(f) == [t |-> "object", f |-> f]
JArray(e) == [t |-> "array", e |-> e]

\* input[key] of a JavaScript object: undefined when the key is absent
JGet(obj, key) == IF key \in DOMAIN obj.f THEN obj.f[key] ELSE JUndefined

----------------------------------------------------------------------------
(* zod schemas and schema.parse.                                           *)

ZString == [z |-> "string"]
ZNumber == [z |-> "number"]
ZUnion(options) == [z |-> "union", options |-> options]
ZOptional(inner) == [z |-> "optional", inner |-> inner]
ZArray(element) == [z |-> "array", element |-> element]
ZObject(shape) == [z |-> "object", shape |-> shape]
ZField(key, schema) == [key |-> key, schema |-> schema]

\* a segment of an issue path: an object key or an array index
PKey(k) == [key |-> k]
PIdx(i) == [idx |-> i]

ZIssue(path, message) == [path |-> path, message |-> message]

\* zod's default message for a value of the wrong type
InvalidType(expected, input, path) ==
    ZIssue(path, IF input.t = "undefined" THEN "Required"
                 ELSE "Expected " \o expected \o ", received " \o input.t)

\* the issues of results[i..], in order
RECURSIVE IssuesFrom(_, _)
IssuesFrom(results, i) ==
    IF i > Len(results) THEN <<>>
    ELSE results[i].issues \o IssuesFrom(results, i + 1)

\* schema.parse(input) at `path`: the issues found, in the order zod finds
\* them, and the parsed value (the unknown keys of an object stripped)
RECURSIVE ZodParse(_, _, _)
ZodParse(schema, input, path) ==
    CASE schema.z = "string" ->
           IF input.t = "string" THEN [issues |-> <<>>, value |-> input]
           ELSE [issues |-> <<InvalidType("string", input, path)>>, value |-> JUndefined]
      [] schema.z = "number" ->
           IF input.t = "number" THEN [issues |-> <<>>, value |-> input]
           ELSE [issues |-> <<InvalidType("number", input, path)>>, value |-> JUndefined]
      [] schema.z = "union" ->
           LET results == [i \in 1..Len(schema.options) |->
                              ZodParse(schema.options[i], input, path)]
               valid == {i \in 1..Len(results) : results[i].issues = <<>>}
           IN IF valid # {}
              THEN results[CHOOSE i \in valid : \A j \in valid : i <= j]
              ELSE [issues |-> <<ZIssue(path, "Invalid input")>>, value |-> JUndefined]
      [] schema.z = "optional" ->
           IF input.t = "undefined" THEN [issues |-> <<>>, value |-> JUndefined]
           ELSE ZodParse(schema.inner, input, path)
      [] schema.z = "array" ->
           IF input.t # "array"
           THEN [issues |-> <<InvalidType("array", input, path)>>, value |-> JUndefined]
           ELSE LET results == [i \in 1..Len(input.e) |->
                                   ZodParse(schema.element, input.e[i],
                                            Append(path, PIdx(i - 1)))]
                IN [issues |-> IssuesFrom(results, 1),
                    value |-> JArray([i \in 1..Len(results) |-> results[i].value])]
      [] schema.z = "object" ->
           IF input.t # "object"
           THEN [issues |-> <<InvalidType("object", input, path)>>, value |-> JUndefined]
           ELSE LET shape == schema.shape
                    results == [i \in 1..Len(shape) |->
                                   ZodParse(shape[i].schema, JGet(input, shape[i].key),
                                            Append(path, PKey(shape[i].key)))]
                    kept == {i \in 1..Len(shape) :
                               \/ shape[i].key \in DOMAIN input.f
                               \/ results[i].value.t # "undefined"}
                IN [issues |-> IssuesFrom(results, 1),
                    value |-> JObject([k \in {shape[i].key : i \in kept} |->
                                 results[CHOOSE i \in kept : shape[i].key = k].value])]

----------------------------------------------------------------------------
(* Text.  A URL or a path is a sequence of tokens whose concatenation is   *)
(* the text: every reserved character ("/", "?", "&", "=", quotes,         *)
(* brackets, ...) is a token of its own, a run of letters, digits, "." and *)
(* "-" may be one token.  startsWith("/"), slice(1) and the joins of       *)
(* buildUrl then act on the sequence as the code acts on the characters.   *)
(* Messages and bodies, which the code only concatenates or hands on, are  *)
(* strings.                                                                *)

Slash == "/"

\* resourcePath.startsWith("/")
StartsWithSlash(path) == Len(path) > 0 /\ Head(path) = Slash

\* the texts of the test set-up: the resource of TestRepository, the base URL
\* of its mock service, and the constructor's default apiPrefix
TestsResource == <<"tests">>
TestBaseUrl == <<"http", ":", "/", "/", "api.test">>
DefaultApiPrefix == <<"/", "api", "/", "v2">>

----------------------------------------------------------------------------
(* BaseApiService: construction and buildUrl.                              *)

\* new BaseApiService(baseUrl, apiPrefix)
BaseApiService(baseUrl, apiPrefix) == [baseUrl |-> baseUrl, apiPrefix |-> apiPrefix]

buildUrl(svc, resourcePath) ==
    LET cleanPath == IF StartsWithSlash(resourcePath) THEN Tail(resourcePath)
                     ELSE resourcePath
        prefix == IF svc.apiPrefix # <<>> THEN svc.apiPrefix \o <<Slash>> ELSE <<Slash>>
    IN svc.baseUrl \o prefix \o cleanPath

----------------------------------------------------------------------------
(* fetch's Headers and RequestInit.                                        *)

\* Headers stores names in lower case
HeaderName(name) ==
    CASE name = "Content-Type" -> "content-type"
      [] name = "Authorization" -> "authorization"
      [] name = "X-Trace" -> "x-trace"
      [] OTHER -> name

\* new Headers(init): init is a mapping from names to values, or undefined
NewHeaders(init) ==
    [n \in {HeaderName(k) : k \in DOMAIN init} |->
        init[CHOOSE k \in DOMAIN init : HeaderName(k) = n]]

\* headers.set(key, value)
HeadersSet(headers, key, value) ==
    [n \in DOMAIN headers \cup {HeaderName(key)} |->
        IF n = HeaderName(key) THEN value ELSE headers[n]]

\* for (const [key, value] of Object.entries(authHeaders)) headers.set(key, value)
RECURSIVE SetAll(_, _, _)
SetAll(headers, authHeaders, keys) ==
    IF keys = {} THEN headers
    ELSE LET key == CHOOSE k \in keys : TRUE
         IN SetAll(HeadersSet(headers, key, authHeaders[key]), authHeaders, keys \ {key})

\* an optional argument object (RequestInit, params): undefined, or an object
\* with the fields given
Undefined == [given |-> FALSE]
Given(fields) == [given |-> TRUE, fields |-> fields]

\* options?.headers, as the argument of new Headers
OptionHeaders(options) ==
    IF options.given /\ "headers" \in DOMAIN options.fields
    THEN options.fields["headers"] ELSE <<>>

\* {credentials: "include", ...options, headers}: the caller's credentials
\* setting, when there is one, stands
FetchInitCallerCredentials(options, headers) ==
    LET given == IF options.given THEN DOMAIN options.fields ELSE {}
    IN [k \in given \cup {"headers", "credentials"} |->
           CASE k = "headers" -> headers
             [] k = "credentials" /\ k \notin given -> "include"
             [] OTHER -> options.fields[k]]

\* {...options, headers, credentials: "include"}
FetchInit(options, headers) ==
    LET given == IF options.given THEN DOMAIN options.fields ELSE {}
    IN [k \in given \cup {"headers", "credentials"} |->
           CASE k = "headers" -> headers
             [] k = "credentials" -> "include"
             [] OTHER -> options.fields[k]]

\* the string spelled by a text
RECURSIVE Str(_)
Str(chars) == IF chars = <<>> THEN "" ELSE Head(chars) \o Str(Tail(chars))

----------------------------------------------------------------------------
(* BaseApiService.handleLogout and the errors request can raise.           *)

\* new Error(message), and the other error values request lets through
Error(name, message) == [name |-> name, message |-> message]

Returned(value) == [kind |-> "returned", value |-> value]
Raised(error) == [kind |-> "raised", error |-> error]

\* what a synchronous stretch of code did: its outcome and the lines it
\* sent to the console and to Sentry on the way
Effect(outcome, consoleLines, sinkCalls) ==
    [outcome |-> outcome, console |-> consoleLines, sink |-> sinkCalls]

CaptureMessage(message) == [call |-> "captureMessage", message |-> message]

\* what Sentry throws when a call of it fails
SentryFailure == Error("Error", "Sentry transport failed")

\* a stretch that has written `consoleLines`, makes the Sentry call
\* `sentryCall` and then ends in `outcome`: nothing guards the call, so when
\* Sentry throws the stretch ends there, with what Sentry threw
Reporting(consoleLines, sentryCall, outcome) ==
    IF sentry = "throws" THEN Effect(Raised(SentryFailure), consoleLines, <<>>)
    ELSE Effect(outcome, consoleLines, <<sentryCall>>)

\* a handleLogout that comes back to its caller instead of throwing
handleLogoutReturns(message) ==
    Effect(Returned(JUndefined),
           <<[level |-> "warn", line |-> message]>>,
           <<CaptureMessage(message)>>)

handleLogout(message) ==
    Reporting(<<[level |-> "warn", line |-> message]>>,
              CaptureMessage(message),
              Raised(Error("Error", message)))

----------------------------------------------------------------------------
(* BaseCrudRepository: schemas and validateResponse.                       *)

\* TestRepository.getDataSchema(): the entity schema of the resource "tests"
getDataSchema ==
    ZObject(<<ZField("id", ZUnion(<<ZString, ZNumber>>)),
              ZField("name", ZString),
              ZField("createdAt", ZOptional(ZString)),
              ZField("updatedAt", ZOptional(ZString))>>)

getResponseSchemas ==
    LET dataSchema == getDataSchema
        one == ZObject(<<ZField("data", dataSchema)>>)
    IN [getList |-> ZObject(<<ZField("data", ZArray(dataSchema)),
                              ZField("total", ZNumber),
                              ZField("pagination",
                                     ZOptional(ZObject(<<ZField("current", ZNumber),
                                                         ZField("pageSize", ZNumber),
                                                         ZField("total", ZNumber)>>)))>>),
        getOne |-> one,
        getMany |-> ZObject(<<ZField("data", ZArray(dataSchema))>>),
        create |-> one,
        update |-> one,
        deleteOne |-> one]

\* String(segment) as Array.prototype.join applies it to a path segment
SegmentText(seg) == IF "key" \in DOMAIN seg THEN seg.key ELSE ToString(seg.idx)

\* parts.join(sep)
RECURSIVE Join(_, _)
Join(parts, sep) ==
    IF parts = <<>> THEN ""
    ELSE IF Len(parts) = 1 THEN parts[1]
    ELSE parts[1] \o sep \o Join(Tail(parts), sep)

\* `${issue.path.join(".")}: ${issue.message}`
IssueText(issue) ==
    Join([i \in 1..Len(issue.path) |-> SegmentText(issue.path[i])], ".")
    \o ": " \o issue.message

CaptureException(error, tags, extra) ==
    [call |-> "captureException", error |-> error, tags |-> tags, extra |-> extra]

\* a validateResponse that logs and reports a failure, and hands the data
\* it received back to its caller
validateResponseLenient(resource, data, schema) ==
    LET parsed == ZodParse(schema, data, <<>>)
        error == [name |-> "ZodError", issues |-> parsed.issues]
    IN IF parsed.issues = <<>>
       THEN Effect(Returned(parsed.value), <<>>, <<>>)
       ELSE Effect(Returned(data),
                   <<[level |-> "error",
                      line |-> "[Zod Validation Error] " \o Str(resource) \o ":",
                      issues |-> error.issues,
                      rawData |-> data]>>,
                   <<CaptureException(error,
                                      [errorType |-> "zod_validation_failure",
                                       resource |-> Str(resource)],
                                      [rawData |-> data])>>)

\* a validateResponse whose message names the first issue alone
validateResponseFirstIssue(resource, data, schema) ==
    LET parsed == ZodParse(schema, data, <<>>)
        error == [name |-> "ZodError", issues |-> parsed.issues]
        validationError ==
            Error("Error", "API response validation failed for "
                           \o Str(resource) \o ": " \o IssueText(error.issues[1]))
    IN IF parsed.issues = <<>>
       THEN Effect(Returned(parsed.value), <<>>, <<>>)
       ELSE Effect(Raised(validationError),
                   <<[level |-> "error",
                      line |-> "[Zod Validation Error] " \o Str(resource) \o ":",
                      issues |-> error.issues,
                      rawData |-> data]>>,
                   <<CaptureException(error,
                                      [errorType |-> "zod_validation_failure",
                                       resource |-> Str(resource)],
                                      [rawData |-> data])>>)

\* a validateResponse that logs a failure to the console and throws, and
\* reports nothing to Sentry
validateResponseUnreported(resource, data, schema) ==
    LET parsed == ZodParse(schema, data, <<>>)
        error == [name |-> "ZodError", issues |-> parsed.issues]
        issues == Join([i \in 1..Len(error.issues) |-> IssueText(error.issues[i])], "; ")
        validationError ==
            Error("Error", "API response validation failed for "
                           \o Str(resource) \o ": " \o issues)
    IN IF parsed.issues = <<>>
       THEN Effect(Returned(parsed.value), <<>>, <<>>)
       ELSE Effect(Raised(validationError),
                   <<[level |-> "error",
                      line |-> "[Zod Validation Error] " \o Str(resource) \o ":",
                      issues |-> error.issues,
                      rawData |-> data]>>,
                   <<>>)

\* a validateResponse that checks the data and returns it as it received it
validateResponseReturnsInput(resource, data, schema) ==
    LET parsed == ZodParse(schema, data, <<>>)
        error == [name |-> "ZodError", issues |-> parsed.issues]
        issues == Join([i \in 1..Len(error.issues) |-> IssueText(error.issues[i])], "; ")
        validationError ==
            Error("Error", "API response validation failed for "
                           \o Str(resource) \o ": " \o issues)
    IN IF parsed.issues = <<>>
       THEN Effect(Returned(data), <<>>, <<>>)
       ELSE Effect(Raised(validationError),
                   <<[level |-> "error",
                      line |-> "[Zod Validation Error] " \o Str(resource) \o ":",
                      issues |-> error.issues,
                      rawData |-> data]>>,
                   <<CaptureException(error,
                                      [errorType |-> "zod_validation_failure",
                                       resource |-> Str(resource)],
                                      [rawData |-> data])>>)

\* validateResponse(data, schema) of the repository of `resource`
validateResponse(resource, data, schema) ==
    LET parsed == ZodParse(schema, data, <<>>)
        error == [name |-> "ZodError", issues |-> parsed.issues]
        issues == Join([i \in 1..Len(error.issues) |-> IssueText(error.issues[i])], "; ")
        validationError ==
            Error("Error", "API response validation failed for "
                           \o Str(resource) \o ": " \o issues)
    IN IF parsed.issues = <<>>
       THEN Effect(Returned(parsed.value), <<>>, <<>>)
       ELSE Reporting(<<[level |-> "error",
                         line |-> "[Zod Validation Error] " \o Str(resource) \o ":",
                         issues |-> error.issues,
                         rawData |-> data]>>,
                      CaptureException(error,
                                       [errorType |-> "zod_validation_failure",
                                        resource |-> Str(resource)],
                                       [rawData |-> data]),
                      Raised(validationError))

----------------------------------------------------------------------------
(* The backend: the responses fetch can resolve to, and JSON.parse on the  *)
(* bodies they carry.                                                      *)

Response(status, contentType, text) ==
    [status |-> status, contentType |-> contentType, text |-> text]

NoResponse == Response(0, "", "")

\* res.ok
Ok(res) == res.status >= 200 /\ res.status <= 299

Entity(id) == JObject([id |-> JString(id), name |-> JString("Test Item " \o id)])

\* the single-entity document of the entity `id`
EntityDocument(id) ==
    [text |-> "{\"data\":{\"id\":\"" \o id \o "\",\"name\":\"Test Item " \o id \o "\"}}",
     value |-> JObject([data |-> Entity(id)])]

\* a single-entity document that has drifted from the schema: no id, and a
\* name that is a number
DriftedDocument ==
    [text |-> "{\"data\":{\"name\":123}}",
     value |-> JObject([data |-> JObject([name |-> JNumber(123)])])]

\* the JSON documents the backend sends, each with the value it denotes
JsonDocuments ==
    { EntityDocument("1"),
      EntityDocument("2"),
      DriftedDocument,
      [text |-> "{\"data\":{\"id\":3,\"name\":\"Test Item 3\",\"extra\":null},\"meta\":\"m\"}",
       value |-> JObject([data |-> JObject([id |-> JNumber(3),
                                            name |-> JString("Test Item 3"),
                                            extra |-> JNull]),
                          meta |-> JString("m")])],
      [text |-> "{\"data\":[{\"id\":\"2\",\"name\":\"Test Item 2\"},"
                \o "{\"id\":\"1\",\"name\":\"Test Item 1\"}],\"total\":2}",
       value |-> JObject([data |-> JArray(<<Entity("2"), Entity("1")>>),
                          total |-> JNumber(2)])],
      [text |-> "{\"data\":[{\"id\":\"1\",\"name\":123}]}",
       value |-> JObject([data |-> JArray(<<JObject([id |-> JString("1"),
                                                     name |-> JNumber(123)])>>)])] }

\* a body that is not a JSON document
MalformedJson == "{\"data\":"

\* JSON.parse(text): the value, or a SyntaxError
JSONParse(text) ==
    IF \E d \in JsonDocuments : d.text = text
    THEN Returned((CHOOSE d \in JsonDocuments : d.text = text).value)
    ELSE Raised(Error("SyntaxError", "Unexpected end of JSON input"))

\* contentType.includes("application/json")
IncludesJson(contentType) ==
    contentType \in {"application/json", "application/json; charset=utf-8"}

SessionExpiredResponse == Response(401, "application/json", "{\"code\":\"TOKEN_EXPIRED\"}")
ServerErrorResponse == Response(500, "text/plain", "Internal Server Error")

\* the responses the backend may give to an exchange
Responses ==
    {Response(200, "application/json", d.text) : d \in JsonDocuments}
    \cup {Response(200, "application/json; charset=utf-8", MalformedJson),
          Response(200, "application/json", ""),
          Response(200, "text/plain", "ok"),
          Response(200, "text/plain", EntityDocument("1").text),
          Response(200, "", MalformedJson),
          Response(200, "text/plain", ""),
          Response(201, "application/json", ""),
          Response(204, "", ""),
          Response(205, "application/json", ""),
          SessionExpiredResponse,
          ServerErrorResponse}

\* the responses the backend may give to one of the concurrent exchanges of
\* getMany, for the entity `id`: the entity, a drifted document, or a failure
FanOutResponses(id) ==
    {Response(200, "application/json", EntityDocument(id).text),
     Response(200, "application/json", DriftedDocument.text),
     SessionExpiredResponse,
     ServerErrorResponse}

\* the responses the backend may give to an exchange for `url` of operation `op`
Backend(op, url) ==
    IF op = "getMany" THEN FanOutResponses(url[Len(url)]) ELSE Responses

\* what getAuthHeaders of the embedding environment resolves to
AuthHeaders == {("Authorization" :> "Bearer session")}

----------------------------------------------------------------------------
(* BaseApiService.request, one stretch per await.                          *)

Pending == [kind |-> "pending"]

\* the state of one apiService.request(url, options) call of the repository,
\* its retry by handleError included
Request(url, options) ==
    [url |-> url, options |-> options,
     isRetry |-> FALSE,        \* the isRetry argument of the current invocation
     pc |-> "authHeaders",     \* the await the current invocation is suspended at
     res |-> NoResponse,       \* the response of the current exchange
     invocations |-> <<FALSE>>,\* the isRetry argument of every invocation so far
     auth |-> <<"pending">>,   \* how every getAuthHeaders call so far has ended
     exchanges |-> <<>>,       \* the (url, init) of every fetch dispatched so far
     handled |-> <<>>,         \* the (status, isRetry) of every handleError call
     reads |-> 0,              \* the res.text() calls made so far
     request |-> Pending,      \* what request settled to
     promise |-> Pending]      \* what the repository's continuation settled to

\* the expired-session classification of a failed response
SessionExpired(res) == res.status = 401

\* handleError(response, isRetry) of a concrete service implementing the
\* single-retry refresh protocol: a directive to refresh and retry, or the
\* effect of raising
handleError(res, isRetry) ==
    IF isRetry
    THEN handleLogout("Session expired. Please log in again.")
    ELSE IF SessionExpired(res)
    THEN Effect([kind |-> "refresh"], <<>>, <<>>)
    ELSE Effect(Raised(Error("ApiError", "HTTP " \o ToString(res.status))), <<>>, <<>>)

\* a request that forgets which attempt it is when it delegates a failure
requestFailedAsFirst(res, isRetry) == handleError(res, FALSE)

\* a request that answers a failed response with the text of its body
requestFailedReturnsBody(res, isRetry) ==
    Effect(Returned(JString(res.text)), <<>>, <<>>)

\* if (!res.ok) return this.handleError(res, isRetry)
requestFailed(res, isRetry) == handleError(res, isRetry)

\* headers made of the auth headers, with every header of the caller set
\* over them
requestHeadersCallerWins(options, authHeaders) ==
    LET caller == OptionHeaders(options)
    IN SetAll(NewHeaders(authHeaders), caller, DOMAIN caller)

\* headers made of the auth headers alone
requestHeadersAuthOnly(options, authHeaders) ==
    SetAll(NewHeaders(<<>>), authHeaders, DOMAIN authHeaders)

\* the headers of the exchange: the caller's, then every auth header set over them
requestHeaders(options, authHeaders) ==
    SetAll(NewHeaders(OptionHeaders(options)), authHeaders, DOMAIN authHeaders)

\* a body stretch that hands every body of a JSON content type to JSON.parse
requestBodyParsesEmpty(res) ==
    IF IncludesJson(res.contentType)
    THEN IF res.text = "" THEN Raised(Error("SyntaxError", "Unexpected end of JSON input"))
         ELSE JSONParse(res.text)
    ELSE IF res.text = "" THEN Returned(JNull)
    ELSE Returned(JString(res.text))

\* a body stretch that falls back to the text when JSON.parse throws
requestBodySwallowsSyntaxError(res) ==
    IF res.text = "" THEN Returned(JNull)
    ELSE IF IncludesJson(res.contentType) /\ JSONParse(res.text).kind = "returned"
    THEN JSONParse(res.text)
    ELSE Returned(JString(res.text))

\* the body stretch of request: from the text of a 2xx response to the result
requestBody(res) ==
    IF res.text = "" THEN Returned(JNull)
    ELSE IF IncludesJson(res.contentType) THEN JSONParse(res.text)
    ELSE Returned(JString(res.text))

----------------------------------------------------------------------------
(* Serialisation of the caller's values: JSON.stringify and the            *)
(* application/x-www-form-urlencoded form of URLSearchParams.toString().   *)
(* A caller's value keeps the insertion order of its keys.                 *)

VString(s) == [v |-> "string", s |-> s]
VNumber(n) == [v |-> "number", n |-> n]
VArray(e) == [v |-> "array", e |-> e]
VObject(entries) == [v |-> "object", entries |-> entries]
VEntry(key, value) == [key |-> key, value |-> value]

Quote == "\""

RECURSIVE JSONStringify(_)
RECURSIVE StringifyAll(_, _, _)

\* the texts of items[i..], each after a "," except the first
StringifyAll(items, i, isObject) ==
    IF i > Len(items) THEN <<>>
    ELSE (IF i > 1 THEN <<",">> ELSE <<>>)
         \o (IF isObject
             THEN <<Quote, items[i].key, Quote, ":">> \o JSONStringify(items[i].value)
             ELSE JSONStringify(items[i]))
         \o StringifyAll(items, i + 1, isObject)

\* JSON.stringify(value), as a text
JSONStringify(value) ==
    CASE value.v = "string" -> <<Quote, value.s, Quote>>
      [] value.v = "number" -> <<ToString(value.n)>>
      [] value.v = "array" -> <<"[">> \o StringifyAll(value.e, 1, FALSE) \o <<"]">>
      [] value.v = "object" -> <<"{">> \o StringifyAll(value.entries, 1, TRUE) \o <<"}">>

\* the urlencoded form of one token: a reserved character is percent-encoded
UrlEncodeToken(token) ==
    CASE token = Quote -> "%22"
      [] token = "[" -> "%5B"
      [] token = "]" -> "%5D"
      [] token = "{" -> "%7B"
      [] token = "}" -> "%7D"
      [] token = "," -> "%2C"
      [] token = ":" -> "%3A"
      [] token = "/" -> "%2F"
      [] token = "?" -> "%3F"
      [] token = "&" -> "%26"
      [] token = "=" -> "%3D"
      [] token = " " -> "+"
      [] OTHER -> token

UrlEncode(text) == [i \in 1..Len(text) |-> UrlEncodeToken(text[i])]

\* URLSearchParams.toString() of the (name, value) pairs in `entries`
RECURSIVE SearchParamsToString(_)
SearchParamsToString(entries) ==
    IF entries = <<>> THEN <<>>
    ELSE UrlEncode(entries[1].name) \o <<"=">> \o UrlEncode(entries[1].value)
         \o (IF Len(entries) > 1 THEN <<"&">> ELSE <<>>)
         \o SearchParamsToString(Tail(entries))

----------------------------------------------------------------------------
(* BaseCrudRepository: the operations.                                     *)

\* `const { name = dflt } = obj || {}`
FieldOr(obj, name, dflt) ==
    IF obj.given /\ name \in DOMAIN obj.fields THEN obj.fields[name] ELSE dflt

\* [sorter.field, sorter.order === "asc" ? "asc" : "desc"]
SortPair(sorter) ==
    VArray(<<VString(sorter.field),
             VString(IF sorter.order = "asc" THEN "asc" ELSE "desc")>>)

\* a query that carries sort also for an empty sorters
queryParamsAlwaysSort(current, pageSize, sorters, filters) ==
    <<[name |-> <<"current">>, value |-> <<ToString(current)>>],
      [name |-> <<"pageSize">>, value |-> <<ToString(pageSize)>>],
      [name |-> <<"sort">>,
       value |-> JSONStringify(VArray([i \in 1..Len(sorters) |-> SortPair(sorters[i])]))]>>
    \o (IF Len(filters) > 0
        THEN <<[name |-> <<"filters">>, value |-> JSONStringify(VArray(filters))]>>
        ELSE <<>>)

\* the entries of queryParams when getList has its url
queryParams(current, pageSize, sorters, filters) ==
    <<[name |-> <<"current">>, value |-> <<ToString(current)>>],
      [name |-> <<"pageSize">>, value |-> <<ToString(pageSize)>>]>>
    \o (IF Len(sorters) > 0
        THEN <<[name |-> <<"sort">>,
                value |-> JSONStringify(VArray([i \in 1..Len(sorters) |->
                                                   SortPair(sorters[i])]))]>>
        ELSE <<>>)
    \o (IF Len(filters) > 0
        THEN <<[name |-> <<"filters">>, value |-> JSONStringify(VArray(filters))]>>
        ELSE <<>>)

\* a getList that takes a pagination with a field missing as no pagination
getListQueryDefaultsTogether(params) ==
    LET pagination == FieldOr(params, "pagination", Undefined)
        whole == pagination.given /\ {"current", "pageSize"} \subseteq DOMAIN pagination.fields
    IN SearchParamsToString(
          queryParams(IF whole THEN pagination.fields["current"] ELSE 1,
                      IF whole THEN pagination.fields["pageSize"] ELSE 10,
                      FieldOr(params, "sorters", <<>>),
                      FieldOr(params, "filters", <<>>)))

\* a getList that collects its sort pairs last clause first
getListQuerySortReversed(params) ==
    LET pagination == FieldOr(params, "pagination", Undefined)
        sorters == FieldOr(params, "sorters", <<>>)
    IN SearchParamsToString(
          queryParams(FieldOr(pagination, "current", 1),
                      FieldOr(pagination, "pageSize", 10),
                      [i \in 1..Len(sorters) |-> sorters[Len(sorters) + 1 - i]],
                      FieldOr(params, "filters", <<>>)))

\* the query of getList(params)
getListQuery(params) ==
    LET pagination == FieldOr(params, "pagination", Undefined)
        sorters == FieldOr(params, "sorters", <<>>)
        filters == FieldOr(params, "filters", <<>>)
        current == FieldOr(pagination, "current", 1)
        pageSize == FieldOr(pagination, "pageSize", 10)
    IN SearchParamsToString(queryParams(current, pageSize, sorters, filters))

\* `${this.apiService.buildUrl(this.resource)}/${id}`
itemUrl(r, id) == buildUrl(r.apiService, r.resource) \o <<Slash>> \o id

\* the continuation of `await this.apiService.request(...)` that wraps a
\* failure of the request into a validation of nothing
afterRequestValidatesFailure(resource, outcome, schema) ==
    validateResponse(resource,
                     IF outcome.kind = "raised" THEN JUndefined ELSE outcome.value,
                     schema)

\* a continuation that hands a null result to the caller without validating it
afterRequestSkipsNull(resource, outcome, schema) ==
    IF outcome.kind = "raised" \/ outcome.value = JNull THEN Effect(outcome, <<>>, <<>>)
    ELSE validateResponse(resource, outcome.value, schema)

\* the continuation of `await this.apiService.request(...)`: a rejection goes
\* on to the caller as it is, a value goes through validateResponse
afterRequest(resource, outcome, schema) ==
    IF outcome.kind = "raised" THEN Effect(outcome, <<>>, <<>>)
    ELSE validateResponse(resource, outcome.value, schema)

\* a Promise.all that hands over the fulfilled values and passes over the
\* rejections, once every promise has settled
PromiseAllSkipsRejected(promises, order) ==
    IF \A i \in 1..Len(promises) : promises[i].kind # "pending"
    THEN Returned(SelectSeq([i \in 1..Len(promises) |->
                                IF promises[i].kind = "returned" THEN promises[i].value
                                ELSE JUndefined],
                            LAMBDA v : v.t # "undefined"))
    ELSE Pending

\* a Promise.all that collects the values as the promises fulfil
PromiseAllInCompletionOrder(promises, order) ==
    IF \E i \in 1..Len(promises) : promises[i].kind = "raised"
    THEN promises[CHOOSE i \in 1..Len(promises) : promises[i].kind = "raised"]
    ELSE IF \A i \in 1..Len(promises) : promises[i].kind = "returned"
    THEN Returned([i \in 1..Len(promises) |-> promises[order[i]].value])
    ELSE Pending

\* Promise.all(promises), pending before the last of `promises` settled;
\* `order` is the order in which the promises settled: it rejects with the
\* first rejection, and fulfils with the values placed by index
PromiseAll(promises, order) ==
    IF \E i \in 1..Len(promises) : promises[i].kind = "raised"
    THEN promises[CHOOSE i \in 1..Len(promises) : promises[i].kind = "raised"]
    ELSE IF \A i \in 1..Len(promises) : promises[i].kind = "returned"
    THEN Returned([i \in 1..Len(promises) |-> promises[i].value])
    ELSE Pending

\* { data: responses.map((response) => response.data) }
finalResponse(responses) ==
    JObject([data |-> JArray([i \in 1..Len(responses) |-> JGet(responses[i], "data")])])

\* what getMany has come to once the per-id promises are as in `promises`,
\* having settled in `order`
getManyOutcome(resource, current, promises, order) ==
    LET responses == PromiseAll(promises, order)
    IN IF current.kind # "pending" THEN Effect(current, <<>>, <<>>)
       ELSE IF responses.kind = "returned"
       THEN validateResponse(resource, finalResponse(responses.value),
                             getResponseSchemas.getMany)
       ELSE Effect(responses, <<>>, <<>>)

\* a getMany that asks for every distinct id once
getManyRequestsDistinct(r, ids, fetchOptions) ==
    LET first == SelectSeq([i \in 1..Len(ids) |-> i],
                           LAMBDA i : \A j \in 1..(i - 1) : ids[j] # ids[i])
    IN [i \in 1..Len(first) |-> Request(itemUrl(r, ids[first[i]]), fetchOptions)]

\* a getMany that invokes the request of the first id alone before it awaits
getManyRequestsOneAtATime(r, ids, fetchOptions) ==
    [i \in 1..(IF Len(ids) > 0 THEN 1 ELSE 0) |-> Request(itemUrl(r, ids[i]), fetchOptions)]

\* ids.map(async (id) => ... this.apiService.request(url, fetchOptions) ...):
\* every request is invoked, in id order, before the first await resumes
getManyRequests(r, ids, fetchOptions) ==
    [i \in 1..Len(ids) |-> Request(itemUrl(r, ids[i]), fetchOptions)]

----------------------------------------------------------------------------
(* The inputs the caller draws from.                                       *)

Ids == {<<"1">>, <<"2">>}

\* the id lists of getMany: every list of at most MaxIds ids, duplicates included
IdLists == UNION {[1..n -> Ids] : n \in 0..MaxIds}

\* the fetchOptions handed to getMany
FanOutOptions == {Undefined, Given("cache" :> "no-store")}

FetchOptions ==
    {Undefined,
     Given("cache" :> "no-store"),
     Given(("headers" :> (("authorization" :> "Bearer caller") @@ ("X-Trace" :> "t1")))
           @@ ("credentials" :> "omit"))}

ListParams ==
    {Undefined,
     Given(<<>>),
     Given("pagination" :> Given("current" :> 2)),
     Given("pagination" :> Given("pageSize" :> 20)),
     Given(("pagination" :> Given(("current" :> 2) @@ ("pageSize" :> 20)))
           @@ ("sorters" :> <<[field |-> "name", order |-> "asc"],
                              [field |-> "createdAt", order |-> "desc"]>>)
           @@ ("filters" :> <<VObject(<<VEntry("field", VString("name")),
                                        VEntry("operator", VString("eq")),
                                        VEntry("value", VString("test"))>>),
                              VObject(<<VEntry("field", VString("age")),
                                        VEntry("operator", VString("gte")),
                                        VEntry("value", VNumber(18))>>)>>)),
     Given("sorters" :> <<[field |-> "name", order |-> "ASC"]>>),
     Given(("sorters" :> <<>>) @@ ("filters" :> <<>>))}

Variables == {VObject(<<VEntry("name", VString("New Item"))>>)}

----------------------------------------------------------------------------
(* The state machine.                                                      *)

\* the state after new TestRepository(apiService), for the repository `r`
\* and a Sentry that behaves as `s`
Constructed(r, s) ==
    /\ repo = r
    /\ sentry = s
    /\ call = [op |-> "none"]
    /\ tasks = <<>>
    /\ result = [kind |-> "idle"]
    /\ requests = <<>>
    /\ sink = <<>>
    /\ console = <<>>
    /\ settled = <<>>
    /\ apiError = [made |-> FALSE]

TestRepository ==
    [resource |-> TestsResource,
     apiService |-> BaseApiService(TestBaseUrl, DefaultApiPrefix)]

Init == Constructed(TestRepository, "records")

\* the same, with a Sentry whose calls may fail
InitFaultySink == \E s \in {"records", "throws"} : Constructed(TestRepository, s)

\* the repository invokes apiService.request(url, options) once and awaits it
Invoke(op, url, options) ==
    /\ call.op = "none"
    /\ call' = op
    /\ tasks' = <<Request(url, options)>>
    /\ requests' = <<[url |-> url, options |-> options]>>
    /\ result' = Pending
    /\ UNCHANGED <<repo, sentry, apiError, sink, console, settled>>

getList(params, fetchOptions) ==
    Invoke([op |-> "getList", params |-> params, fetchOptions |-> fetchOptions],
           buildUrl(repo.apiService, repo.resource) \o <<"?">> \o getListQuery(params),
           fetchOptions)

\* a getOne that leaves the caller's options behind
getOneWithoutOptions(id, fetchOptions) ==
    Invoke([op |-> "getOne", id |-> id, fetchOptions |-> fetchOptions],
           itemUrl(repo, id), Undefined)

getOne(id, fetchOptions) ==
    Invoke([op |-> "getOne", id |-> id, fetchOptions |-> fetchOptions],
           itemUrl(repo, id), fetchOptions)

\* what getMany(ids, fetchOptions) has done when it first suspends
getManyStarted(r, ids, fetchOptions) ==
    LET started == getManyRequests(r, ids, fetchOptions)
        now == getManyOutcome(r.resource, Pending,
                              [i \in 1..Len(started) |-> started[i].promise], <<>>)
    IN [tasks |-> started,
        requests |-> [i \in 1..Len(started) |->
                         [url |-> started[i].url, options |-> started[i].options]],
        result |-> now.outcome,
        console |-> now.console,
        sink |-> now.sink]

getMany(ids, fetchOptions) ==
    /\ call.op = "none"
    /\ call' = [op |-> "getMany", ids |-> ids, fetchOptions |-> fetchOptions]
    /\ \E next \in {getManyStarted(repo, ids, fetchOptions)} :
         /\ tasks' = next.tasks
         /\ requests' = next.requests
         /\ result' = next.result
         /\ console' = console \o next.console
         /\ sink' = sink \o next.sink
    /\ UNCHANGED <<repo, sentry, apiError, settled>>

create(variables) ==
    Invoke([op |-> "create", variables |-> variables],
           buildUrl(repo.apiService, repo.resource),
           Given(("method" :> "POST")
                 @@ ("headers" :> ("Content-Type" :> "application/json"))
                 @@ ("body" :> Str(JSONStringify(variables)))))

\* an update that sends its variables with PUT
updateWithPut(id, variables) ==
    Invoke([op |-> "update", id |-> id, variables |-> variables],
           itemUrl(repo, id),
           Given(("method" :> "PUT")
                 @@ ("headers" :> ("Content-Type" :> "application/json"))
                 @@ ("body" :> Str(JSONStringify(variables)))))

update(id, variables) ==
    Invoke([op |-> "update", id |-> id, variables |-> variables],
           itemUrl(repo, id),
           Given(("method" :> "PATCH")
                 @@ ("headers" :> ("Content-Type" :> "application/json"))
                 @@ ("body" :> Str(JSONStringify(variables)))))

deleteOne(id) ==
    Invoke([op |-> "deleteOne", id |-> id],
           itemUrl(repo, id),
           Given(("method" :> "DELETE")
                 @@ ("headers" :> ("Content-Type" :> "application/json"))))

\* request number k settles with the effect `eff` of its last stretch, and the
\* repository's continuations run: validation, and for getMany Promise.all.
\* The tasks, result, console and sink that come of it.
Settled(k, task, eff) ==
    LET schemas == getResponseSchemas
        schema == IF call.op = "getMany" THEN schemas.getOne ELSE schemas[call.op]
        v == afterRequest(repo.resource, eff.outcome, schema)
        done == [task EXCEPT !.pc = "done",
                             !.request = eff.outcome,
                             !.promise = v.outcome]
        after == [tasks EXCEPT ![k] = done]
        end == IF call.op = "getMany"
               THEN getManyOutcome(repo.resource, result,
                                   [i \in 1..Len(after) |-> after[i].promise],
                                   Append(settled, k))
               ELSE Effect(v.outcome, <<>>, <<>>)
    IN [tasks |-> after,
        result |-> end.outcome,
        console |-> console \o eff.console \o v.console \o end.console,
        sink |-> sink \o eff.sink \o v.sink \o end.sink]

Settle(k, task, eff) ==
    \E next \in {Settled(k, task, eff)} :
       /\ tasks' = next.tasks
       /\ settled' = Append(settled, k)
       /\ result' = next.result
       /\ console' = next.console
       /\ sink' = next.sink
       /\ UNCHANGED <<repo, sentry, apiError, call, requests>>

\* a service that keeps the response of the last exchange in a field of
\* its own, which every request reads its response from
ContinueSharedResponse(k, task) ==
    /\ tasks' = [j \in 1..Len(tasks) |->
                    IF j = k THEN task ELSE [tasks[j] EXCEPT !.res = task.res]]
    /\ UNCHANGED <<repo, sentry, apiError, call, result, requests, sink, console, settled>>

\* request number k does not settle yet: it goes on to its next await
Continue(k, task) ==
    /\ tasks' = [tasks EXCEPT ![k] = task]
    /\ UNCHANGED <<repo, sentry, apiError, call, result, requests, sink, console, settled>>

\* `await this.getAuthHeaders()` resumes: the headers are merged and fetch is
\* dispatched
AuthHeadersResolve(k) ==
    /\ tasks[k].pc = "authHeaders"
    /\ Len(tasks[k].exchanges) < MaxExchanges
    /\ \E authHeaders \in AuthHeaders :
         Continue(k, [tasks[k] EXCEPT
                        !.pc = "fetch",
                        !.auth[Len(tasks[k].auth)] = "resolved",
                        !.exchanges = Append(@, [url |-> tasks[k].url,
                                                 init |-> FetchInit(tasks[k].options,
                                                             requestHeaders(tasks[k].options,
                                                                            authHeaders))])])

\* a request that dispatches the caller's headers alone when getAuthHeaders
\* throws
AuthHeadersRejectDispatches(k) ==
    /\ tasks[k].pc = "authHeaders"
    /\ Len(tasks[k].exchanges) < MaxExchanges
    /\ Continue(k, [tasks[k] EXCEPT
                       !.pc = "fetch",
                       !.auth[Len(tasks[k].auth)] = "rejected",
                       !.exchanges = Append(@, [url |-> tasks[k].url,
                                                init |-> FetchInit(tasks[k].options,
                                                            requestHeaders(tasks[k].options,
                                                                           <<>>))])])

\* `await this.getAuthHeaders()` throws: request rejects, nothing is dispatched
AuthHeadersReject(k) ==
    /\ tasks[k].pc = "authHeaders"
    /\ Settle(k, [tasks[k] EXCEPT !.auth[Len(tasks[k].auth)] = "rejected"],
              Effect(Raised(Error("Error", "No session")), <<>>, <<>>))

\* a request that hands a fetch that threw to handleError, as a response
\* of status 0
FetchRejectHandled(k) ==
    /\ tasks[k].pc = "fetch"
    /\ Settle(k, [tasks[k] EXCEPT !.res = NoResponse,
                                  !.handled = Append(@, [status |-> 0,
                                                         isRetry |-> tasks[k].isRetry])],
              Effect(Raised(Error("ApiError", "HTTP 0")), <<>>, <<>>))

\* `await fetch(...)` throws: no response was received
FetchReject(k) ==
    /\ tasks[k].pc = "fetch"
    /\ Settle(k, [tasks[k] EXCEPT !.res = NoResponse],
              Effect(Raised(Error("TypeError", "Failed to fetch")), <<>>, <<>>))

\* `await fetch(...)` resumes with a response
FetchResolve(k) ==
    /\ tasks[k].pc = "fetch"
    /\ \E res \in Backend(call.op, tasks[k].url) :
       \E failed \in {requestFailed(res, tasks[k].isRetry)} :
       \E task \in {[tasks[k] EXCEPT
                       !.res = res,
                       !.handled = IF Ok(res) THEN @
                                   ELSE Append(@, [status |-> res.status,
                                                   isRetry |-> tasks[k].isRetry])]} :
         IF ~Ok(res)
         THEN IF failed.outcome.kind = "refresh"
              THEN Continue(k, [task EXCEPT !.pc = "refresh"])
              ELSE Settle(k, task, failed)
         ELSE IF res.status = 204 \/ res.status = 205
         THEN Settle(k, task, Effect(Returned(JNull), <<>>, <<>>))
         ELSE Continue(k, [task EXCEPT !.pc = "text", !.reads = @ + 1])

\* `await res.text()` resumes
TextResolve(k) ==
    /\ tasks[k].pc = "text"
    /\ Settle(k, tasks[k], Effect(requestBody(tasks[k].res), <<>>, <<>>))

\* handleError's refresh of the session succeeds: it calls
\* request(url, options, true), which runs to its first await
RefreshResolve(k) ==
    /\ tasks[k].pc = "refresh"
    /\ Continue(k, [tasks[k] EXCEPT !.pc = "authHeaders",
                                    !.isRetry = TRUE,
                                    !.invocations = Append(@, TRUE),
                                    !.auth = Append(@, "pending")])

\* handleError's refresh of the session fails: the caller is signed out
RefreshReject(k) ==
    /\ tasks[k].pc = "refresh"
    /\ Settle(k, tasks[k], handleLogout("Session refresh failed. Please log in again."))

Next ==
    \/ \E params \in ListParams, fetchOptions \in FetchOptions : getList(params, fetchOptions)
    \/ \E id \in Ids, fetchOptions \in FetchOptions : getOne(id, fetchOptions)
    \/ \E ids \in IdLists, fetchOptions \in FanOutOptions : getMany(ids, fetchOptions)
    \/ \E variables \in Variables : create(variables)
    \/ \E id \in Ids, variables \in Variables : update(id, variables)
    \/ \E id \in Ids : deleteOne(id)
    \/ \E k \in 1..Len(tasks) : AuthHeadersResolve(k)
    \/ \E k \in 1..Len(tasks) : AuthHeadersReject(k)
    \/ \E k \in 1..Len(tasks) : FetchReject(k)
    \/ \E k \in 1..Len(tasks) : FetchResolve(k)
    \/ \E k \in 1..Len(tasks) : TextResolve(k)
    \/ \E k \in 1..Len(tasks) : RefreshResolve(k)
    \/ \E k \in 1..Len(tasks) : RefreshReject(k)

Spec == Init /\ [][Next]_vars

----------------------------------------------------------------------------
(* errors/exceptions.ts: ApiError, ServerError and ClientError.  `rest` is *)
(* what the caller passes after errorCode: nothing, or the statusCode.     *)

\* new ApiError(message, errorCode, statusCode)
ApiError(message, errorCode, statusCode) ==
    [name |-> "ApiError", message |-> message,
     statusCode |-> statusCode, errorCode |-> errorCode]

\* new ServerError(message, errorCode, statusCode = 500)
ServerError(message, errorCode, rest) ==
    [ApiError(message, errorCode, IF rest = <<>> THEN 500 ELSE rest[1])
        EXCEPT !.name = "ServerError"]

\* a ClientError with the default status of ServerError
ClientErrorDefaults500(message, errorCode, rest) ==
    [ApiError(message, errorCode, IF rest = <<>> THEN 500 ELSE rest[1])
        EXCEPT !.name = "ClientError"]

\* new ClientError(message, errorCode, statusCode = 400)
ClientError(message, errorCode, rest) ==
    [ApiError(message, errorCode, IF rest = <<>> THEN 400 ELSE rest[1])
        EXCEPT !.name = "ClientError"]

\* error.hasCode(code)
hasCode(error, code) == error.errorCode = code

\* error.toJSON()
toJSON(error) ==
    [status |-> error.statusCode, detail |-> error.message, code |-> error.errorCode]

\* the arguments the errors are made with, and the codes asked for
ErrorMessages == {"Resource not found", "Database failed"}
ErrorCodes == {"RESOURCE_NOT_FOUND", "DATABASE_ERROR", "UNAUTHORIZED"}
StatusCodes == {401, 404, 503}

\* `error` was made by `new class(message, errorCode, ...rest)`
Made(class, message, errorCode, rest, error) ==
    /\ ~apiError.made
    /\ apiError' = [made |-> TRUE, error |-> error,
                    args |-> [class |-> class, message |-> message,
                              errorCode |-> errorCode, rest |-> rest],
                    json |-> <<>>, asked |-> <<>>]
    /\ UNCHANGED <<repo, sentry, call, tasks, result, requests, sink, console, settled>>

NewApiError(message, errorCode, statusCode) ==
    Made("ApiError", message, errorCode, <<statusCode>>,
         ApiError(message, errorCode, statusCode))

NewServerError(message, errorCode, rest) ==
    Made("ServerError", message, errorCode, rest, ServerError(message, errorCode, rest))

NewClientError(message, errorCode, rest) ==
    Made("ClientError", message, errorCode, rest, ClientError(message, errorCode, rest))

\* error.toJSON() is called, and its result kept
CallToJSON ==
    /\ apiError.made
    /\ apiError' = [apiError EXCEPT !.json = Append(@, toJSON(apiError.error))]
    /\ Len(apiError.json) < 1
    /\ UNCHANGED <<repo, sentry, call, tasks, result, requests, sink, console, settled>>

\* error.hasCode(code) is called, and its result kept
CallHasCode(code) ==
    /\ apiError.made
    /\ Len(apiError.asked) < 1
    /\ apiError' = [apiError EXCEPT
                       !.asked = Append(@, [code |-> code,
                                            has |-> hasCode(apiError.error, code)])]
    /\ UNCHANGED <<repo, sentry, call, tasks, result, requests, sink, console, settled>>

NextErrors ==
    \/ \E m \in ErrorMessages, c \in ErrorCodes, st \in StatusCodes : NewApiError(m, c, st)
    \/ \E m \in ErrorMessages, c \in ErrorCodes, rest \in {<<>>} \cup {<<st>> : st \in StatusCodes} :
          NewServerError(m, c, rest)
    \/ \E m \in ErrorMessages, c \in ErrorCodes, rest \in {<<>>} \cup {<<st>> : st \in StatusCodes} :
          NewClientError(m, c, rest)
    \/ CallToJSON
    \/ \E c \in ErrorCodes : CallHasCode(c)

SpecErrors == Init /\ [][NextErrors]_vars

\* repositories over services of other prefixes: "", "/x" and "/x/", with
\* the resource paths "y" and "/y"
ApiPrefixes == {<<>>, <<"/", "x">>, <<"/", "x", "/">>}
ResourcePaths == {<<"y">>, <<"/", "y">>}

InitServices ==
    \E apiPrefix \in ApiPrefixes, resource \in ResourcePaths :
       Constructed([resource |-> resource,
                    apiService |-> BaseApiService(TestBaseUrl, apiPrefix)],
                   "records")

SpecServices == InitServices /\ [][Next]_vars

SpecFaultySink == InitFaultySink /\ [][Next]_vars

----------------------------------------------------------------------------
(* Properties.                                                             *)

Tasks == {tasks[k] : k \in 1..Len(tasks)}

\* the requests that settled with a value which validateResponse then refused
FailedValidation(t) ==
    /\ t.request.kind = "returned"
    /\ t.promise.kind = "raised"

\* the number of entries of the log `log` that satisfy Test
Count(log, Test(_)) == Cardinality({i \in 1..Len(log) : Test(log[i])})

\* C1: an original request(url, options) call is invoked with isRetry=false,
\* is retried at most once, the retry is invoked with isRetry=true and comes
\* after a first exchange that failed as an expired session; a failure of
\* the retried exchange is handled with isRetry=true and raises, so no more
\* than two exchanges are ever dispatched for the call.
C1_SingleRetry ==
    \A t \in Tasks :
       /\ Len(t.invocations) <= 2
       /\ Len(t.exchanges) <= 2
       /\ t.invocations[1] = FALSE
       /\ Len(t.invocations) = 2 =>
            /\ t.invocations[2] = TRUE
            /\ t.handled[1] = [status |-> 401, isRetry |-> FALSE]
       /\ \A i \in 1..Len(t.handled) : t.handled[i].isRetry = (i = 2)
       /\ Len(t.handled) = 2 =>
            /\ t.pc = "done"
            /\ t.request.kind = "raised"

\* C1 witness: a call whose first exchange and whose retried exchange both
\* failed as an expired session, and which then raised.
C1_Witness ==
    \E t \in Tasks :
       /\ t.handled = <<[status |-> 401, isRetry |-> FALSE],
                        [status |-> 401, isRetry |-> TRUE]>>
       /\ t.invocations = <<FALSE, TRUE>>
       /\ Len(t.exchanges) = 2
       /\ t.request.kind = "raised"

\* C2: when a failure is handled while isRetry is already true, whatever its
\* status, handleLogout runs (it warns and reports its message) and the
\* request raises the logout error: it never returns a value.
C2_ExhaustedRetryRaises ==
    /\ \A t \in Tasks :
          (Len(t.handled) > 0 /\ t.handled[Len(t.handled)].isRetry) =>
             /\ t.pc = "done"
             /\ t.request = Raised(Error("Error", "Session expired. Please log in again."))
             /\ t.promise = t.request
    /\ Count(sink, LAMBDA c : c = CaptureMessage("Session expired. Please log in again."))
         = Cardinality({k \in 1..Len(tasks) :
                          /\ Len(tasks[k].handled) > 0
                          /\ tasks[k].handled[Len(tasks[k].handled)].isRetry})

\* C2 witness: a retried call whose second exchange failed with a server
\* error, and a sign-out that was reported.
C2_Witness ==
    /\ \E t \in Tasks :
          /\ t.handled = <<[status |-> 401, isRetry |-> FALSE],
                           [status |-> 500, isRetry |-> TRUE]>>
          /\ t.request.kind = "raised"
    /\ result.kind = "raised"
    /\ Len(sink) = 1

\* the batch the caller of getMany received
Batch == JGet(result.value, "data").e

\* C3: a successful getMany returns data whose k-th element is the entity
\* that the request for ids[k] returned, whatever the order in which the
\* requests settled.
C3_ResultInIdOrder ==
    (call.op = "getMany" /\ result.kind = "returned") =>
       /\ Len(Batch) = Len(call.ids)
       /\ \A k \in 1..Len(call.ids) :
             /\ tasks[k].url = itemUrl(repo, call.ids[k])
             /\ tasks[k].promise.kind = "returned"
             /\ Batch[k] = JGet(tasks[k].promise.value, "data")
             /\ Batch[k] = Entity(call.ids[k][1])

\* C3 witness: the request for the second of two different ids settled
\* before the request for the first, and getMany returned.
C3_Witness ==
    /\ call.op = "getMany"
    /\ call.ids = <<<<"1">>, <<"2">>>>
    /\ settled = <<2, 1>>
    /\ result.kind = "returned"
    /\ Batch = <<Entity("1"), Entity("2")>>

\* C4: getMany is all-or-nothing: once the request or the validation of one
\* id has failed getMany raises, and a batch is returned only when every id
\* succeeded and then holds an entity for every id.
C4_AllOrNothing ==
    call.op = "getMany" =>
       /\ (\E t \in Tasks : t.promise.kind = "raised") => result.kind = "raised"
       /\ result.kind = "returned" =>
            /\ \A t \in Tasks : t.promise.kind = "returned"
            /\ Len(Batch) = Len(call.ids)
       /\ result.kind = "raised" => \E t \in Tasks : t.promise = result

\* C4 witness: of two ids one succeeded and the other failed, and getMany
\* raised.
C4_Witness ==
    /\ call.op = "getMany"
    /\ Len(call.ids) = 2
    /\ \E t \in Tasks : t.promise.kind = "returned"
    /\ \E t \in Tasks : t.promise.kind = "raised"
    /\ result.kind = "raised"

\* C5: getMany invokes request once per occurrence of an id, the k-th
\* invocation for the URL buildUrl(resource) + "/" + ids[k] with the
\* caller's options, and a successful result has len(ids) entities.
C5_OneRequestPerId ==
    call.op = "getMany" =>
       /\ Len(requests) = Len(call.ids)
       /\ \A k \in 1..Len(requests) :
             /\ requests[k].url =
                  buildUrl(repo.apiService, repo.resource) \o <<"/">> \o call.ids[k]
             /\ Str(requests[k].url) = "http://api.test/api/v2/tests/" \o call.ids[k][1]
             /\ requests[k].options = call.fetchOptions
             /\ tasks[k].invocations[1] = FALSE
             /\ \A i \in 1..Len(tasks[k].exchanges) :
                   tasks[k].exchanges[i].url = requests[k].url
       /\ result.kind = "returned" => Len(Batch) = Len(call.ids)

\* C5 witness: getMany of the same id twice, with options, returned two
\* entities after two requests.
C5_Witness ==
    /\ call.op = "getMany"
    /\ call.ids = <<<<"1">>, <<"1">>>>
    /\ call.fetchOptions # Undefined
    /\ Len(requests) = 2
    /\ result.kind = "returned"
    /\ Batch = <<Entity("1"), Entity("1")>>

\* C6 as stated: getMany starts the request of every id before it waits for
\* any, and is suspended until all of them have completed.
C6_SuspendsUntilAllCompleted ==
    call.op = "getMany" =>
       /\ Len(tasks) = Len(call.ids)
       /\ result.kind # "pending" => \A t \in Tasks : t.pc = "done"

\* C6: getMany starts the request of every id before it waits for any; it
\* then stays suspended until all of them have completed or one of them has
\* failed, and returns only when all have completed.
C6_StartsAllThenWaits ==
    call.op = "getMany" =>
       /\ Len(tasks) = Len(call.ids)
       /\ result.kind = "returned" => \A t \in Tasks : t.pc = "done"
       /\ result.kind = "pending" =>
            /\ \A t \in Tasks : t.promise.kind # "raised"
            /\ \E t \in Tasks : t.pc # "done"
       /\ (result.kind = "raised" /\ \E t \in Tasks : t.pc # "done") =>
            \E t \in Tasks : t.promise = result

\* C6 witness: both requests of a getMany of two ids are outstanding, none
\* has had an answer, and getMany is suspended.
C6_Witness ==
    /\ call.op = "getMany"
    /\ Len(call.ids) = 2
    /\ \A t \in Tasks : t.pc = "fetch" /\ Len(t.exchanges) = 1 /\ t.res = NoResponse
    /\ result.kind = "pending"

\* the schema the operation under way validates its response against, and
\* the schema each awaited request's value is validated against
ResultSchema == getResponseSchemas[call.op]
RequestSchema == IF call.op = "getMany" THEN getResponseSchemas.getOne ELSE ResultSchema

\* the value `v` is of the shape `schema` describes
RECURSIVE Conforms(_, _)
Conforms(schema, v) ==
    CASE schema.z = "string" -> v.t = "string"
      [] schema.z = "number" -> v.t = "number"
      [] schema.z = "union" ->
           \E i \in 1..Len(schema.options) : Conforms(schema.options[i], v)
      [] schema.z = "optional" -> v.t = "undefined" \/ Conforms(schema.inner, v)
      [] schema.z = "array" ->
           /\ v.t = "array"
           /\ \A i \in 1..Len(v.e) : Conforms(schema.element, v.e[i])
      [] schema.z = "object" ->
           /\ v.t = "object"
           /\ \A i \in 1..Len(schema.shape) :
                 Conforms(schema.shape[i].schema, JGet(v, schema.shape[i].key))

\* C7: every value an operation returns is of the shape of the operation's
\* response schema, and so was what every request of the operation
\* delivered; a request that delivers a value the schema does not admit
\* makes the operation raise.
C7_OnlyValidatedValues ==
    call.op # "none" =>
       /\ result.kind = "returned" =>
            /\ Conforms(ResultSchema, result.value)
            /\ \A t \in Tasks :
                  /\ t.request.kind = "returned"
                  /\ Conforms(RequestSchema, t.request.value)
       /\ \A t \in Tasks :
             (t.request.kind = "returned" /\ ~Conforms(RequestSchema, t.request.value)) =>
                /\ t.promise.kind = "raised"
                /\ result.kind = "raised"
       /\ \A t \in Tasks : t.promise.kind = "returned" => Conforms(RequestSchema, t.promise.value)

\* C7 witness: the backend answered an update with an entity that lacks its
\* id, and update raised.
C7_Witness ==
    /\ call.op = "update"
    /\ tasks[1].request = Returned(DriftedDocument.value)
    /\ JGet(JGet(tasks[1].request.value, "data"), "id") = JUndefined
    /\ ~Conforms(ResultSchema, tasks[1].request.value)
    /\ result.kind = "raised"

ZodLine(l) == l.level = "error" /\ l.line = "[Zod Validation Error] tests:"

\* C8: when request raises, the operation awaiting it raises the same error
\* as it is, and nothing is validated: the console and the sink hold a
\* schema-validation record for the requests that delivered a value the
\* schema refused, and for no other.
C8_TransportErrorsPassThrough ==
    /\ \A t \in Tasks :
          t.request.kind = "raised" =>
             /\ t.promise = t.request
             /\ call.op # "getMany" => result = t.request
    /\ Count(sink, LAMBDA c : c.call = "captureException")
         = Cardinality({k \in 1..Len(tasks) : FailedValidation(tasks[k])})
    /\ Count(console, ZodLine)
         = Cardinality({k \in 1..Len(tasks) : FailedValidation(tasks[k])})

\* C8 witness: the fetch of a getList failed, getList raised that error,
\* and neither the console nor the sink has a record.
C8_Witness ==
    /\ call.op = "getList"
    /\ tasks[1].request = Raised(Error("TypeError", "Failed to fetch"))
    /\ result = tasks[1].request
    /\ sink = <<>>
    /\ console = <<>>

\* "<path>: <message>" of issues[i..], the path segments joined by ".", the
\* issues joined by "; "
RECURSIVE Dotted(_, _)
Dotted(path, i) ==
    IF i > Len(path) THEN ""
    ELSE (IF i > 1 THEN "." ELSE "")
         \o (IF "key" \in DOMAIN path[i] THEN path[i].key ELSE ToString(path[i].idx))
         \o Dotted(path, i + 1)

RECURSIVE Listed(_, _)
Listed(issues, i) ==
    IF i > Len(issues) THEN ""
    ELSE (IF i > 1 THEN "; " ELSE "")
         \o Dotted(issues[i].path, 1) \o ": " \o issues[i].message
         \o Listed(issues, i + 1)

\* C9: the error of a validation failure has the message "API response
\* validation failed for <resource>: " followed by every issue the
\* validator found, in its order, each as "<path>: <message>" with the path
\* segments joined by ".", the issues joined by "; ".
C9_ValidationMessage ==
    \A t \in Tasks :
       FailedValidation(t) =>
          /\ t.promise.error.name = "Error"
          /\ t.promise.error.message =
               "API response validation failed for tests: "
               \o Listed(ZodParse(RequestSchema, t.request.value, <<>>).issues, 1)

\* C9 witness: a getList answered with a list whose item has a number for
\* its name and that has no total raised an error that names both issues.
C9_Witness ==
    /\ call.op = "getList"
    /\ tasks[1].request.kind = "returned"
    /\ result = Raised(Error("Error",
          "API response validation failed for tests: "
          \o "data.0.name: Expected string, received number; total: Required"))

\* C10: the sink holds one captureException record for every validation
\* failure, there as soon as the error is raised, tagged
\* zod_validation_failure with the resource and carrying the raw value and
\* the issues; a validation that succeeds leaves no record.
C10_FailureReportedOnce ==
    /\ \A k \in 1..Len(tasks) :
          FailedValidation(tasks[k]) =>
             Count(sink, LAMBDA c : /\ c.call = "captureException"
                                    /\ c.extra = [rawData |-> tasks[k].request.value])
               = Cardinality({j \in 1..Len(tasks) :
                                /\ FailedValidation(tasks[j])
                                /\ tasks[j].request.value = tasks[k].request.value})
    /\ \A i \in 1..Len(sink) :
          sink[i].call = "captureException" =>
             /\ sink[i].tags = [errorType |-> "zod_validation_failure", resource |-> "tests"]
             /\ sink[i].error.name = "ZodError"
             /\ sink[i].error.issues # <<>>
             /\ \E t \in Tasks :
                   /\ FailedValidation(t)
                   /\ sink[i].extra.rawData = t.request.value
                   /\ sink[i].error.issues = ZodParse(RequestSchema, t.request.value, <<>>).issues
    /\ (result.kind = "returned" /\ call.op # "getMany") =>
          \A i \in 1..Len(sink) : sink[i].call # "captureException"

\* C10 witness: a getOne answered with an entity whose shape is wrong
\* raised, and the sink holds the one record of it.
C10_Witness ==
    /\ call.op = "getOne"
    /\ result.kind = "raised"
    /\ sink = <<CaptureException(
                  [name |-> "ZodError",
                   issues |-> <<ZIssue(<<PKey("data"), PKey("id")>>, "Invalid input"),
                                ZIssue(<<PKey("data"), PKey("name")>>,
                                       "Expected string, received number")>>],
                  [errorType |-> "zod_validation_failure", resource |-> "tests"],
                  [rawData |-> DriftedDocument.value])>>

\* C11: a request that delivered a value the schema refuses makes the
\* operation raise the validation error, also when the Sentry call that
\* reports the failure throws.
C11_SinkFailureKeepsValidationError ==
    \A t \in Tasks :
       (t.request.kind = "returned" /\ ~Conforms(RequestSchema, t.request.value)) =>
          t.promise = Raised(Error("Error",
              "API response validation failed for tests: "
              \o Listed(ZodParse(RequestSchema, t.request.value, <<>>).issues, 1)))

\* C12: request returns null, and raises nothing, for a 204 or 205
\* response, whose body it does not read, and for every other 2xx response
\* whose text is empty, whatever its content type.
C12_EmptyResult ==
    \A t \in Tasks :
       (t.pc = "done" /\ Ok(t.res)) =>
          /\ t.res.status \in {204, 205} =>
               /\ t.request = Returned(JNull)
               /\ t.reads = 0
          /\ (t.res.status \notin {204, 205} /\ t.res.text = "") =>
               /\ t.request = Returned(JNull)
               /\ t.reads = 1
          /\ t.request = Returned(JNull) => (t.res.status \in {204, 205} \/ t.res.text = "")

\* C12 witness: a 201 response of a JSON content type with an empty body
\* gave null.
C12_Witness ==
    \E t \in Tasks :
       /\ t.res = Response(201, "application/json", "")
       /\ t.reads = 1
       /\ t.request = Returned(JNull)

\* every fetch dispatched so far: the options of the request call it belongs
\* to, and the init it was dispatched with
Exchanges ==
    UNION {{[options |-> t.options, init |-> t.exchanges[i].init] :
              i \in 1..Len(t.exchanges)} : t \in Tasks}

\* the names that both the caller's headers and the auth headers set
SetByBoth(caller, auth) ==
    {HeaderName(k) : k \in DOMAIN caller} \cap {HeaderName(k) : k \in DOMAIN auth}

\* C13 as stated: where the caller's headers and the auth headers set the
\* same name, the request is sent with the caller's value.
C13_CallerValueOnConflict ==
    \A x \in Exchanges : \E auth \in AuthHeaders :
       LET caller == OptionHeaders(x.options)
       IN \A k \in DOMAIN caller :
             HeaderName(k) \in SetByBoth(caller, auth) =>
                x.init.headers[HeaderName(k)] = caller[k]

\* C13: where the caller's headers and the auth headers set the same name,
\* the request is sent with the auth value: the caller's headers are the
\* base and the auth headers are set over them.
C13_AuthValueOnConflict ==
    \A x \in Exchanges : \E auth \in AuthHeaders :
       LET caller == OptionHeaders(x.options)
       IN \A k \in DOMAIN auth :
             HeaderName(k) \in SetByBoth(caller, auth) =>
                x.init.headers[HeaderName(k)] = auth[k]

\* C13 witness: a getList whose caller set authorization to its own token
\* was dispatched with the token of the session.
C13_Witness ==
    /\ call.op = "getList"
    /\ \E x \in Exchanges :
          /\ "authorization" \in DOMAIN OptionHeaders(x.options)
          /\ OptionHeaders(x.options)["authorization"] = "Bearer caller"
          /\ x.init.headers["authorization"] = "Bearer session"

\* C14: the headers sent are those of the caller and of the auth headers
\* together; a header of the caller keeps its value where the auth headers
\* do not set its name, and has the auth value where they do.
C14_UnionAuthFirst ==
    \A x \in Exchanges : \E auth \in AuthHeaders :
       LET caller == OptionHeaders(x.options)
           sent == x.init.headers
       IN /\ DOMAIN sent = {HeaderName(k) : k \in DOMAIN caller \cup DOMAIN auth}
          /\ \A k \in DOMAIN auth : sent[HeaderName(k)] = auth[k]
          /\ \A k \in DOMAIN caller :
                HeaderName(k) \notin {HeaderName(a) : a \in DOMAIN auth} =>
                   sent[HeaderName(k)] = caller[k]

\* C14 witness: a getOne whose caller set X-Trace and authorization was
\* dispatched with the caller's x-trace and the authorization of the session.
C14_Witness ==
    /\ call.op = "getOne"
    /\ \E x \in Exchanges :
          /\ DOMAIN OptionHeaders(x.options) = {"authorization", "X-Trace"}
          /\ x.init.headers = [authorization |-> "Bearer session"] @@ ("x-trace" :> "t1")

\* C15: every fetch is dispatched with credentials "include", whatever the
\* caller's options say of credentials.
C15_CredentialsIncluded ==
    \A x \in Exchanges : x.init["credentials"] = "include"

\* C15 witness: a request whose caller asked for credentials "omit" was
\* dispatched with credentials "include".
C15_Witness ==
    \E x \in Exchanges :
       /\ x.options.given
       /\ "credentials" \in DOMAIN x.options.fields
       /\ x.options.fields["credentials"] = "omit"
       /\ x.init["credentials"] = "include"

\* the prefix without the separator it may end in
WithoutTrailingSlash(prefix) ==
    IF Len(prefix) > 0 /\ prefix[Len(prefix)] = "/"
    THEN SubSeq(prefix, 1, Len(prefix) - 1) ELSE prefix

\* the path has a segment that is empty: two separators in a row
HasEmptySegment(path) ==
    \E i \in 1..(Len(path) - 1) : path[i] = "/" /\ path[i + 1] = "/"

\* C16: for the prefixes "", "/x", "/x/" and the paths "y", "/y", the URL
\* that buildUrl gives to every request of the repository is the base URL,
\* the prefix, one separator and the path, with no empty segment after the
\* base URL.
C16_OneSeparator ==
    \A k \in 1..Len(requests) :
       LET svc == repo.apiService
           built == SubSeq(requests[k].url, Len(svc.baseUrl) + 1,
                           Len(buildUrl(svc, repo.resource)))
       IN /\ built = WithoutTrailingSlash(svc.apiPrefix) \o <<"/", "y">>
          /\ ~HasEmptySegment(built)

\* the part of a URL after its "?"
QueryOf(url) ==
    LET q == CHOOSE i \in 1..Len(url) : url[i] = "?" /\ \A j \in 1..(i - 1) : url[j] # "?"
    IN SubSeq(url, q + 1, Len(url))

\* the pieces of `text` between the tokens `sep`
RECURSIVE SplitAt(_, _)
SplitAt(text, sep) ==
    IF \A i \in 1..Len(text) : text[i] # sep THEN <<text>>
    ELSE LET i == CHOOSE i \in 1..Len(text) :
                     text[i] = sep /\ \A j \in 1..(i - 1) : text[j] # sep
         IN <<SubSeq(text, 1, i - 1)>> \o SplitAt(SubSeq(text, i + 1, Len(text)), sep)

\* what a server reads for a percent-encoded token of a query
UrlDecodeToken(token) ==
    CASE token = "%22" -> "\""
      [] token = "%5B" -> "["
      [] token = "%5D" -> "]"
      [] token = "%7B" -> "{"
      [] token = "%7D" -> "}"
      [] token = "%2C" -> ","
      [] token = "%3A" -> ":"
      [] token = "%2F" -> "/"
      [] token = "%3F" -> "?"
      [] token = "%26" -> "&"
      [] token = "%3D" -> "="
      [] token = "+" -> " "
      [] OTHER -> token

\* the (name, value) pairs a server reads from a query, in their order
Decoded(query) ==
    LET parts == SplitAt(query, "&")
    IN [k \in 1..Len(parts) |->
           LET kv == SplitAt(parts[k], "=")
           IN [name |-> Str(kv[1]),
               value |-> [i \in 1..Len(kv[2]) |-> UrlDecodeToken(kv[2][i])]]]

RequestedQuery == Decoded(QueryOf(requests[1].url))

\* the pagination that getList was called with, if any
CallerPagination ==
    IF call.params.given /\ "pagination" \in DOMAIN call.params.fields
    THEN call.params.fields["pagination"] ELSE Undefined

\* the value the caller gave for `name` in its pagination, `dflt` if none
CallerPage(name, dflt) ==
    IF CallerPagination.given /\ name \in DOMAIN CallerPagination.fields
    THEN CallerPagination.fields[name] ELSE dflt

\* C17: getList asks for current=1 and pageSize=10 when it has no params or
\* no pagination, and for the default of the one that is missing when the
\* pagination has only the other.
C17_PaginationDefaults ==
    call.op = "getList" =>
       /\ RequestedQuery[1] = [name |-> "current", value |-> <<ToString(CallerPage("current", 1))>>]
       /\ RequestedQuery[2] = [name |-> "pageSize", value |-> <<ToString(CallerPage("pageSize", 10))>>]
       /\ ~CallerPagination.given =>
            SubSeq(QueryOf(requests[1].url), 1, 7)
              = <<"current", "=", "1", "&", "pageSize", "=", "10">>

\* C17 witness: a getList with a pagination of pageSize 20 alone asked for
\* current=1 and pageSize=20.
C17_Witness ==
    /\ call.op = "getList"
    /\ call.params = Given("pagination" :> Given("pageSize" :> 20))
    /\ Str(requests[1].url) = "http://api.test/api/v2/tests?current=1&pageSize=20"

\* the value a JSON text spells, read from its token i on, and the token
\* after it
RECURSIVE ReadJson(_, _)
RECURSIVE ReadItems(_, _, _, _)
ReadJson(text, i) ==
    CASE text[i] = "\"" ->
           IF text[i + 1] = "\"" THEN [value |-> VString(""), next |-> i + 2]
           ELSE [value |-> VString(text[i + 1]), next |-> i + 3]
      [] text[i] = "[" ->
           LET r == ReadItems(text, i + 1, FALSE, <<>>)
           IN [value |-> VArray(r.items), next |-> r.next]
      [] text[i] = "{" ->
           LET r == ReadItems(text, i + 1, TRUE, <<>>)
           IN [value |-> VObject(r.items), next |-> r.next]
      [] OTHER ->
           [value |-> VNumber(CHOOSE n \in 0..99 : ToString(n) = text[i]), next |-> i + 1]

\* the items of an array, or the entries of an object, up to its closing token
ReadItems(text, i, isObject, read) ==
    IF text[i] \in {"]", "}"} THEN [items |-> read, next |-> i + 1]
    ELSE IF text[i] = "," THEN ReadItems(text, i + 1, isObject, read)
    ELSE IF isObject
    THEN LET v == ReadJson(text, i + 4)
         IN ReadItems(text, v.next, TRUE, Append(read, VEntry(text[i + 1], v.value)))
    ELSE LET v == ReadJson(text, i)
         IN ReadItems(text, v.next, FALSE, Append(read, v.value))

\* the sorters and filters getList was called with
CallerSorters == FieldOr(call.params, "sorters", <<>>)
CallerFilters == FieldOr(call.params, "filters", <<>>)

\* the value of the parameter `name` of the query requested
Requested(name) ==
    RequestedQuery[CHOOSE k \in 1..Len(RequestedQuery) : RequestedQuery[k].name = name].value

\* C18: getList makes one request, to buildUrl(resource) + "?" + query; the
\* query has current and pageSize, then sort exactly when there are
\* sorters, then filters exactly when there are filters; sort is an array
\* of [field, direction] pairs of strings, direction "asc" or "desc".
C18_QueryShape ==
    call.op = "getList" =>
       /\ Len(requests) = 1
       /\ SubSeq(requests[1].url, 1, Len(requests[1].url) - Len(QueryOf(requests[1].url)))
            = buildUrl(repo.apiService, repo.resource) \o <<"?">>
       /\ [k \in 1..Len(RequestedQuery) |-> RequestedQuery[k].name]
            = <<"current", "pageSize">>
              \o (IF CallerSorters # <<>> THEN <<"sort">> ELSE <<>>)
              \o (IF CallerFilters # <<>> THEN <<"filters">> ELSE <<>>)
       /\ CallerSorters # <<>> =>
            LET sort == ReadJson(Requested("sort"), 1)
            IN /\ sort.next = Len(Requested("sort")) + 1
               /\ sort.value.v = "array"
               /\ \A k \in 1..Len(sort.value.e) :
                     /\ sort.value.e[k].v = "array"
                     /\ Len(sort.value.e[k].e) = 2
                     /\ sort.value.e[k].e[1].v = "string"
                     /\ sort.value.e[k].e[2] \in {VString("asc"), VString("desc")}

\* C18 witness: a getList with sorters and no filters, whose one sorter has
\* the order "ASC", asked for sort [["name","desc"]] and for no filters.
C18_Witness ==
    /\ call.op = "getList"
    /\ CallerFilters = <<>>
    /\ CallerSorters = <<[field |-> "name", order |-> "ASC"]>>
    /\ Str(requests[1].url)
         = "http://api.test/api/v2/tests?current=1&pageSize=10"
           \o "&sort=%5B%5B%22name%22%2C%22desc%22%5D%5D"

\* C19: what a server decodes from the sort and filters parameters of the
\* query of getList are sequences as long as the caller's sorters and
\* filters, the k-th sort pair being the field and direction of the k-th
\* sorter and the k-th filter being the k-th filter clause.
C19_ClauseOrderKept ==
    call.op = "getList" =>
       /\ CallerSorters # <<>> =>
            LET sort == ReadJson(Requested("sort"), 1).value
            IN /\ Len(sort.e) = Len(CallerSorters)
               /\ \A k \in 1..Len(CallerSorters) :
                     /\ sort.e[k].e[1] = VString(CallerSorters[k].field)
                     /\ (sort.e[k].e[2] = VString("asc")) = (CallerSorters[k].order = "asc")
       /\ CallerFilters # <<>> =>
            LET filters == ReadJson(Requested("filters"), 1).value
            IN /\ Len(filters.e) = Len(CallerFilters)
               /\ \A k \in 1..Len(CallerFilters) : filters.e[k] = CallerFilters[k]

\* C19 witness: a getList with the sorters name, createdAt and the filters
\* on name, age asked for them in that order.
C19_Witness ==
    /\ call.op = "getList"
    /\ Len(CallerSorters) = 2 /\ Len(CallerFilters) = 2
    /\ ReadJson(Requested("sort"), 1).value
         = VArray(<<VArray(<<VString("name"), VString("asc")>>),
                    VArray(<<VString("createdAt"), VString("desc")>>)>>)
    /\ LET filters == ReadJson(Requested("filters"), 1).value
       IN /\ filters.e[1].entries[1] = VEntry("field", VString("name"))
          /\ filters.e[2].entries[1] = VEntry("field", VString("age"))
          /\ filters.e[2].entries[3] = VEntry("value", VNumber(18))

\* the part of the value `v` that `schema` declares: of an object the fields
\* of the shape, of an array every element's part
RECURSIVE Declared(_, _)
Declared(schema, v) ==
    CASE schema.z = "object" /\ v.t = "object" ->
           LET shape == schema.shape
               keys == {shape[i].key : i \in 1..Len(shape)} \cap DOMAIN v.f
           IN JObject([key \in keys |->
                          Declared(shape[CHOOSE i \in 1..Len(shape) : shape[i].key = key].schema,
                                   v.f[key])])
      [] schema.z = "array" /\ v.t = "array" ->
           JArray([i \in 1..Len(v.e) |-> Declared(schema.element, v.e[i])])
      [] schema.z = "optional" /\ v.t # "undefined" -> Declared(schema.inner, v)
      [] OTHER -> v

SingleRequest == call.op \in {"getList", "getOne", "create", "update", "deleteOne"}

\* C20 as stated: when the decoded body satisfies the response schema of a
\* getList, getOne, create, update or deleteOne, the operation returns a
\* value equal to the decoded body.
C20_ReturnsDecodedBody ==
    (SingleRequest /\ tasks[1].request.kind = "returned"
       /\ Conforms(ResultSchema, tasks[1].request.value)) =>
       result = Returned(tasks[1].request.value)

\* C20: when the decoded body satisfies the response schema of a getList,
\* getOne, create, update or deleteOne, the operation returns the part of
\* the decoded body that the schema declares: every declared field with its
\* value, nothing added, array elements in their order, the fields that the
\* schema does not declare dropped; a body that has no other fields is
\* returned equal to itself.
C20_ReturnsDeclaredPart ==
    (SingleRequest /\ tasks[1].request.kind = "returned"
       /\ Conforms(ResultSchema, tasks[1].request.value)) =>
       /\ result = Returned(Declared(ResultSchema, tasks[1].request.value))
       /\ Declared(ResultSchema, tasks[1].request.value) = tasks[1].request.value
            => result = tasks[1].request

\* C20 witness: an update answered with an entity that has the field extra,
\* in a document that has the field meta, returned the document without them.
C20_Witness ==
    /\ call.op = "update"
    /\ tasks[1].request.kind = "returned"
    /\ tasks[1].request.value.t = "object"
    /\ DOMAIN tasks[1].request.value.f = {"data", "meta"}
    /\ result = Returned(JObject([data |-> JObject([id |-> JNumber(3),
                                                    name |-> JString("Test Item 3")])]))

\* the content types of the backend that declare JSON
DeclaresJson(contentType) ==
    contentType \in {"application/json", "application/json; charset=utf-8"}

\* C21: for a 2xx response, other than 204 and 205, with a non-empty body,
\* request returns the value the body spells when the content type declares
\* JSON and the text as it is otherwise; a body declared JSON that does not
\* parse makes request raise a SyntaxError.
C21_BodyDecoding ==
    \A t \in Tasks :
       (t.pc = "done" /\ Ok(t.res) /\ t.res.status \notin {204, 205} /\ t.res.text # "") =>
          IF DeclaresJson(t.res.contentType)
          THEN IF \E d \in JsonDocuments : d.text = t.res.text
               THEN \E d \in JsonDocuments : d.text = t.res.text /\ t.request = Returned(d.value)
               ELSE /\ t.request.kind = "raised"
                    /\ t.request.error.name = "SyntaxError"
                    /\ t.promise = t.request
          ELSE t.request = Returned(JString(t.res.text))

\* C21 witness: a 200 response declared JSON whose body breaks off made
\* request, and the operation, raise a SyntaxError.
C21_Witness ==
    /\ \E t \in Tasks :
          /\ t.res = Response(200, "application/json; charset=utf-8", MalformedJson)
          /\ t.request.kind = "raised"
          /\ t.request.error.name = "SyntaxError"
    /\ result.kind = "raised"
    /\ result.error.name = "SyntaxError"

\* the request has ended on a fetch that was dispatched and had no response
NetworkFailure(t) == t.pc = "done" /\ Len(t.exchanges) > 0 /\ t.res = NoResponse

\* C22: a fetch that gives no response makes request raise the error of
\* fetch as it is: handleError is not called for it, request is not invoked
\* again, and the error is none of those raised for a response that is not 2xx.
C22_NetworkFailurePropagates ==
    \A t \in Tasks :
       NetworkFailure(t) =>
          /\ t.request = Raised(Error("TypeError", "Failed to fetch"))
          /\ t.promise = t.request
          /\ Len(t.handled) = Len(t.exchanges) - 1
          /\ Len(t.invocations) = Len(t.exchanges)
          /\ \A res \in Responses, isRetry \in BOOLEAN :
                ~Ok(res) => handleError(res, isRetry).outcome # t.request

\* C22 witness: the first fetch of a create had no response, and create
\* raised the TypeError of fetch with no handleError call and no retry.
C22_Witness ==
    /\ call.op = "create"
    /\ NetworkFailure(tasks[1])
    /\ tasks[1].handled = <<>>
    /\ tasks[1].invocations = <<FALSE>>
    /\ result = Raised(Error("TypeError", "Failed to fetch"))

\* the single-entity schema { data: entity }
SingleEntitySchema == ZObject(<<ZField("data", getDataSchema)>>)

\* the options of the one request of the operation, and what was dispatched
WriteOptions == requests[1].options.fields

\* C23: create, update and deleteOne make one request each: create a POST
\* to buildUrl(resource) with the variables as JSON body, update a PATCH to
\* buildUrl(resource) + "/" + id with the variables as JSON body, deleteOne
\* a DELETE to buildUrl(resource) + "/" + id without a body; what they
\* return is of the single-entity schema, and a response that is not makes
\* them raise.
C23_WriteOperations ==
    call.op \in {"create", "update", "deleteOne"} =>
       /\ Len(requests) = 1 /\ Len(tasks) = 1
       /\ requests[1].options.given
       /\ WriteOptions["method"] = (CASE call.op = "create" -> "POST"
                                      [] call.op = "update" -> "PATCH"
                                      [] call.op = "deleteOne" -> "DELETE")
       /\ requests[1].url = (IF call.op = "create"
                             THEN buildUrl(repo.apiService, repo.resource)
                             ELSE buildUrl(repo.apiService, repo.resource)
                                  \o <<"/">> \o call.id)
       /\ WriteOptions["headers"] = ("Content-Type" :> "application/json")
       /\ IF call.op = "deleteOne" THEN "body" \notin DOMAIN WriteOptions
          ELSE WriteOptions["body"] = Str(JSONStringify(call.variables))
       /\ \A i \in 1..Len(tasks[1].exchanges) :
             LET sent == tasks[1].exchanges[i]
             IN /\ sent.url = requests[1].url
                /\ sent.init["method"] = WriteOptions["method"]
                /\ sent.init["headers"]["content-type"] = "application/json"
                /\ ("body" \in DOMAIN sent.init) = (call.op # "deleteOne")
       /\ result.kind = "returned" => Conforms(SingleEntitySchema, result.value)
       /\ (tasks[1].request.kind = "returned"
             /\ ~Conforms(SingleEntitySchema, tasks[1].request.value)) =>
            result.kind = "raised"

\* C23 witness: an update of the entity 1 was dispatched as a PATCH to
\* .../tests/1 with the variables as its body, and returned the entity.
C23_Witness ==
    /\ call.op = "update"
    /\ Len(tasks[1].exchanges) = 1
    /\ Str(tasks[1].exchanges[1].url) = "http://api.test/api/v2/tests/1"
    /\ tasks[1].exchanges[1].init["method"] = "PATCH"
    /\ tasks[1].exchanges[1].init["body"] = "{\"name\":\"New Item\"}"
    /\ result = Returned(JObject([data |-> Entity("1")]))

\* C24: an error value has the message and the code it was made with, and
\* the status it was made with, which for a ClientError made without one is
\* 400 and for a ServerError made without one is 500; toJSON gives status,
\* detail and code equal to its statusCode, message and errorCode; hasCode(c)
\* is true exactly for its own code.
C24_ErrorValues ==
    apiError.made =>
       LET e == apiError.error
           a == apiError.args
       IN /\ e.name = a.class
          /\ e.message = a.message
          /\ e.errorCode = a.errorCode
          /\ e.statusCode = (IF a.rest # <<>> THEN a.rest[1]
                             ELSE IF a.class = "ClientError" THEN 400 ELSE 500)
          /\ a.class = "ApiError" => a.rest # <<>>
          /\ \A i \in 1..Len(apiError.json) :
                apiError.json[i] = [status |-> e.statusCode, detail |-> a.message,
                                    code |-> a.errorCode]
          /\ \A i \in 1..Len(apiError.asked) :
                apiError.asked[i].has = (apiError.asked[i].code = a.errorCode)

\* C24 witness: a ClientError made without a status has the status 400,
\* serialises to it, and does not have another code than its own.
C24_Witness ==
    /\ apiError.made
    /\ apiError.args = [class |-> "ClientError", message |-> "Resource not found",
                        errorCode |-> "RESOURCE_NOT_FOUND", rest |-> <<>>]
    /\ apiError.json = <<[status |-> 400, detail |-> "Resource not found",
                          code |-> "RESOURCE_NOT_FOUND"]>>
    /\ apiError.asked = <<[code |-> "UNAUTHORIZED", has |-> FALSE]>>

\* the requests whose current invocation received a response that is not 2xx
FailedResponse(t) ==
    /\ t.pc \in {"refresh", "done"}
    /\ Len(t.exchanges) = Len(t.invocations)
    /\ t.res # NoResponse
    /\ ~Ok(t.res)

\* C25: for a response that is not 2xx, request calls handleError once, with
\* the status of that response and the isRetry of the invocation that
\* received it; it calls res.text() for no such response; and when it settles
\* on such a response it raises what handleError raises for it (the sign-out
\* error when the refresh that handleError awaited failed), and returns no
\* value.
C25_FailureDelegated ==
    \A t \in Tasks :
       /\ Len(t.handled) <= Len(t.exchanges)
       /\ \A i \in 1..Len(t.handled) : t.handled[i].isRetry = t.invocations[i]
       /\ FailedResponse(t) =>
            /\ Len(t.handled) = Len(t.exchanges)
            /\ t.handled[Len(t.handled)] = [status |-> t.res.status, isRetry |-> t.isRetry]
            /\ t.reads = 0
            /\ t.pc = "refresh" => handleError(t.res, t.isRetry).outcome.kind = "refresh"
            /\ t.pc = "done" =>
                 /\ t.request.kind = "raised"
                 /\ t.request =
                      IF handleError(t.res, t.isRetry).outcome.kind = "refresh"
                      THEN handleLogout("Session refresh failed. Please log in again.").outcome
                      ELSE handleError(t.res, t.isRetry).outcome
       /\ t.reads > 0 => Ok(t.res) /\ t.pc \in {"text", "done"}

\* C25 witness: a getOne whose only exchange was answered with 500 raised the
\* error of handleError, after one handleError call and no res.text() call.
C25_Witness ==
    /\ call.op = "getOne"
    /\ FailedResponse(tasks[1])
    /\ tasks[1].res = ServerErrorResponse
    /\ tasks[1].pc = "done"
    /\ tasks[1].handled = <<[status |-> 500, isRetry |-> FALSE]>>
    /\ tasks[1].reads = 0
    /\ tasks[1].request = Raised(Error("ApiError", "HTTP 500"))
    /\ result = tasks[1].request

\* the headers of `auth` are among the headers `headers` of an exchange
Carries(headers, auth) ==
    \A n \in DOMAIN auth :
       /\ HeaderName(n) \in DOMAIN headers
       /\ headers[HeaderName(n)] = auth[n]

\* C26: every invocation of request, the retry included, calls getAuthHeaders
\* once; a fetch is dispatched only for an invocation whose getAuthHeaders
\* call has resolved, and it carries the headers that call resolved to; an
\* invocation whose getAuthHeaders call failed dispatches nothing and makes
\* request raise that failure.
C26_AuthHeadersFirst ==
    \A t \in Tasks :
       /\ Len(t.auth) = Len(t.invocations)
       /\ Len(t.exchanges) = Count(t.auth, LAMBDA a : a = "resolved")
       /\ \A i \in 1..Len(t.exchanges) :
             /\ t.auth[i] = "resolved"
             /\ \E auth \in AuthHeaders : Carries(t.exchanges[i].init["headers"], auth)
       /\ \A i \in 1..Len(t.auth) :
             /\ t.auth[i] = "pending" => (i = Len(t.auth) /\ t.pc = "authHeaders")
             /\ t.auth[i] = "rejected" =>
                  /\ i = Len(t.auth)
                  /\ Len(t.exchanges) = i - 1
                  /\ t.pc = "done"
                  /\ t.request = Raised(Error("Error", "No session"))

\* C26 witness: the getAuthHeaders call of a retry failed after the one of the
\* first invocation had resolved: one fetch was dispatched, not two.
C26_Witness ==
    \E t \in Tasks :
       /\ t.invocations = <<FALSE, TRUE>>
       /\ t.auth = <<"resolved", "rejected">>
       /\ Len(t.exchanges) = 1
       /\ t.request = Raised(Error("Error", "No session"))

\* the operations that take the caller's request options
TakesOptions == call.op \in {"getList", "getOne", "getMany"}

\* C27: getList and getOne hand the caller's request options to request as
\* they are, omitted ones as omitted, and getMany hands them to the request
\* of every id; they stay as they are while the requests run.
C27_OptionsPassedThrough ==
    TakesOptions =>
       /\ Len(requests) = (IF call.op = "getMany" THEN Len(call.ids) ELSE 1)
       /\ \A k \in 1..Len(requests) :
             /\ requests[k].options = call.fetchOptions
             /\ tasks[k].options = call.fetchOptions
             /\ call.fetchOptions.given =>
                  DOMAIN tasks[k].options.fields = DOMAIN call.fetchOptions.fields

\* C27 witness: a getOne called with headers and a credentials setting
\* returned, and its request had been invoked with those options.
C27_Witness ==
    /\ call.op = "getOne"
    /\ call.fetchOptions =
         Given(("headers" :> (("authorization" :> "Bearer caller") @@ ("X-Trace" :> "t1")))
               @@ ("credentials" :> "omit"))
    /\ requests[1].options = call.fetchOptions
    /\ tasks[1].options = call.fetchOptions
    /\ result.kind = "returned"

\* what request settles to, from what the request itself was given: its own
\* getAuthHeaders result, its own response and its own isRetry
OwnOutcome(t) ==
    IF t.auth[Len(t.auth)] = "rejected" THEN Raised(Error("Error", "No session"))
    ELSE IF t.res = NoResponse THEN Raised(Error("TypeError", "Failed to fetch"))
    ELSE IF ~Ok(t.res)
    THEN IF handleError(t.res, t.isRetry).outcome.kind = "refresh"
         THEN handleLogout("Session refresh failed. Please log in again.").outcome
         ELSE handleError(t.res, t.isRetry).outcome
    ELSE IF t.res.status = 204 \/ t.res.status = 205 THEN Returned(JNull)
    ELSE requestBody(t.res)

\* in every state: a request that settled, settled to what its own inputs
\* give, and the repository's continuation to what that gives; every exchange
\* was sent with headers made of the request's own options; the repository
\* and its service are as constructed
OwnState ==
    /\ repo = TestRepository
    /\ \A k \in 1..Len(tasks) :
          LET t == tasks[k]
          IN /\ t.url = requests[k].url
             /\ t.options = requests[k].options
             /\ \A i \in 1..Len(t.exchanges) :
                   /\ t.exchanges[i].url = t.url
                   /\ \E auth \in AuthHeaders :
                         t.exchanges[i].init =
                            FetchInit(t.options, requestHeaders(t.options, auth))
             /\ t.pc = "done" =>
                   /\ t.request = OwnOutcome(t)
                   /\ t.promise =
                        afterRequest(repo.resource, t.request,
                                     IF call.op = "getMany" THEN getResponseSchemas.getOne
                                     ELSE getResponseSchemas[call.op]).outcome

\* in every step: the repository, its service, the call's arguments and the
\* arguments of its requests stay as they are, and a step of one request
\* leaves every other request as it is
OwnStep ==
    /\ repo' = repo
    /\ call.op # "none" =>
         /\ call' = call
         /\ requests' = requests
         /\ Len(tasks') = Len(tasks)
         /\ \A k \in 1..Len(tasks) :
               /\ tasks'[k].url = tasks[k].url
               /\ tasks'[k].options = tasks[k].options
               /\ tasks'[k] # tasks[k] =>
                     \A j \in 1..Len(tasks) : j # k => tasks'[j] = tasks[j]

\* C28: requests that run at the same time share nothing that changes: each
\* is sent with headers built from its own options and settles to what its
\* own response gives, under every order of their steps; no step changes the
\* service's baseUrl or apiPrefix, the repository's resource, or the options
\* the caller passed.
C28_NoSharedState == []OwnState /\ [][OwnStep]_vars

\* C28 witness: of the two requests of a getMany the second settled first,
\* with a server error; the first then returned its own entity.
C28_Witness ==
    /\ call.op = "getMany"
    /\ call.ids = <<<<"1">>, <<"2">>>>
    /\ settled = <<2, 1>>
    /\ tasks[2].request = Raised(Error("ApiError", "HTTP 500"))
    /\ tasks[1].request = Returned(JObject([data |-> Entity("1")]))
    /\ tasks[1].promise = tasks[1].request

\* the requests that returned null
ReturnedNull(t) == t.pc = "done" /\ t.request = Returned(JNull)

\* C29: when request returns null (a 204 or 205 response, or a 2xx response
\* with an empty body), the operation that awaited it, deleteOne included,
\* raises the validation error for a null value and returns nothing, and
\* Sentry holds one captureException record with the null value for each
\* such request.
C29_NullFailsValidation ==
    /\ \A t \in Tasks :
          ReturnedNull(t) =>
             /\ t.promise = Raised(Error("Error",
                   "API response validation failed for tests: : Expected object, received null"))
             /\ call.op # "getMany" => result = t.promise
             /\ result.kind # "returned"
    /\ Count(sink, LAMBDA c : c.call = "captureException" /\ c.extra = [rawData |-> JNull])
         = Cardinality({k \in 1..Len(tasks) : ReturnedNull(tasks[k])})

\* C29 witness: a deleteOne answered with 204 raised the validation error,
\* and Sentry holds the record of it.
C29_Witness ==
    /\ call.op = "deleteOne"
    /\ tasks[1].res = Response(204, "", "")
    /\ ReturnedNull(tasks[1])
    /\ result = Raised(Error("Error",
           "API response validation failed for tests: : Expected object, received null"))
    /\ Len(sink) = 1
    /\ sink[1].call = "captureException"
    /\ sink[1].extra = [rawData |-> JNull]

====
